---- MODULE Spec2Model ----
(***************************************************************************)
(* Load-time behaviour of the extension module                             *)
(* dials_algorithms_integration_ext                                        *)
(* (algorithms/integration/boost_python/integration_ext.cc).               *)
(*                                                                         *)
(* The module entry point calls four registration sub-procedures in a      *)
(* fixed order.  Each sub-procedure installs one named capability in the   *)
(* host's capability table or fails by throwing, and a throw leaves the    *)
(* entry point at once.  Loader threads run the entry point; reader        *)
(* threads look capabilities up in the table.                              *)
(***************************************************************************)
EXTENDS Integers, Sequences, FiniteSets, TLC

\* ------------------------------------------------------------------ bounds
\* Number of loader threads of the host process.
NThreads == 2
\* Number of invocations of the entry point in one process lifetime.
MaxLoads == 3

Threads == 1..NThreads

\* ------------------------------------------------- the entry point's code
\* Variants of the body: a fifth call, a call left out, two calls exchanged.
Registrations_Extra ==
  << "luiso_s_2d_integration",
     "summation",
     "summation_reciprocal_space",
     "profile_fitting_reciprocal_space",
     "profile_fitting" >>

Registrations_Missing ==
  << "luiso_s_2d_integration",
     "summation",
     "profile_fitting_reciprocal_space" >>

Registrations_Swapped ==
  << "luiso_s_2d_integration",
     "summation_reciprocal_space",
     "summation",
     "profile_fitting_reciprocal_space" >>

\* The sub-procedures the entry point calls, in the order of its body; each
\* is named by the capability it installs.
Registrations ==
  << "luiso_s_2d_integration",
     "summation",
     "summation_reciprocal_space",
     "profile_fitting_reciprocal_space" >>

NumRegistrations == Len(Registrations)

\* The identifiers a reader may ask for: the four capabilities and one name
\* the extension never installs.
CallNames == {Registrations[i] : i \in 1..NumRegistrations} \cup {"unknown"}

Range(s) == {s[i] : i \in 1..Len(s)}

NoDuplicates(s) == \A i, j \in 1..Len(s) : s[i] = s[j] => i = j

IsPrefix(s, t) == Len(s) <= Len(t) /\ \A i \in 1..Len(s) : s[i] = t[i]

\* Outcome of one registration sub-procedure called on table tbl: it throws
\* when the table is unavailable or the name is already taken, and installs
\* the name otherwise.
ExportOutcome(name, tbl, unavailable) ==
  IF unavailable THEN "unavailable"
  ELSE IF name \in Range(tbl) THEN "duplicate"
  ELSE "ok"

\* What the table is after a sub-procedure has installed its name: exactly
\* one entry more, at the end.
Install(tbl, name) == Append(tbl, name)

\* Variants of the sequencing: a body that catches a throw and goes on, and
\* a body that starts over after its last call.
AfterCall_Swallow(k, threw) ==
  IF k < NumRegistrations THEN [pc |-> "call", k |-> k + 1]
  ELSE [pc |-> "done", k |-> k]

AfterCall_Loop(k, threw) ==
  IF threw THEN [pc |-> "failed", k |-> k]
  ELSE IF k < NumRegistrations THEN [pc |-> "call", k |-> k + 1]
  ELSE [pc |-> "call", k |-> 1]

\* Where the entry point is after its k-th call has returned (threw = FALSE)
\* or thrown (threw = TRUE): a throw leaves the body, a return goes on to
\* the next statement, and the end of the body is the successful return.
AfterCall(k, threw) ==
  IF threw THEN [pc |-> "failed", k |-> k]
  ELSE IF k < NumRegistrations THEN [pc |-> "call", k |-> k + 1]
  ELSE [pc |-> "done", k |-> k]

\* What the entry point does to the table when one of its calls throws:
\* nothing, there is no handler in its body.
OnThrow(tbl, mine) == tbl

\* Lookup of a capability by a caller: it dispatches exactly when the name
\* is in the table.
Dispatch(tbl, name) == name \in Range(tbl)

\* ------------------------------------------------------------------- state
VARIABLES
  table,      \* the capability table, in insertion order
  pc,         \* per loader thread: idle, call, commit, done, failed
  kk,         \* per loader thread: index of the current sub-procedure
  called,     \* per loader thread: sub-procedures called in this invocation
  added,      \* per loader thread: names this invocation installed
  failedAt,   \* per loader thread: index of the call that threw, 0 if none
  why,        \* per loader thread: the error reported to the host loader
  startedLoaded, \* per loader thread: a load had succeeded at invocation
  loads,      \* invocations of the entry point so far
  loaded,     \* some invocation has returned successfully
  populators, \* invocations that installed at least one name
  obs         \* the last lookup by a reader

vars == << table, pc, kk, called, added, failedAt, why, startedLoaded,
           loads, loaded, populators, obs >>

Inside(t) == pc[t] \in {"call", "commit"}

Terminal(t) == pc[t] \in {"done", "failed"}

NoObs == [name |-> "none", ok |-> FALSE, mid |-> FALSE, after |-> FALSE,
          size |-> 0]

Init ==
  /\ table = << >>
  /\ pc = [t \in Threads |-> "idle"]
  /\ kk = [t \in Threads |-> 0]
  /\ called = [t \in Threads |-> << >>]
  /\ added = [t \in Threads |-> << >>]
  /\ failedAt = [t \in Threads |-> 0]
  /\ why = [t \in Threads |-> "none"]
  /\ startedLoaded = [t \in Threads |-> FALSE]
  /\ loads = 0
  /\ loaded = FALSE
  /\ populators = 0
  /\ obs = NoObs

\* ----------------------------------------------------------------- actions
\* The host loader calls the entry point on thread t.
Enter(t) ==
  /\ pc[t] \in {"idle", "done", "failed"}
  /\ loads < MaxLoads
  /\ loads' = loads + 1
  /\ pc' = [pc EXCEPT ![t] = "call"]
  /\ kk' = [kk EXCEPT ![t] = 1]
  /\ called' = [called EXCEPT ![t] = << >>]
  /\ added' = [added EXCEPT ![t] = << >>]
  /\ failedAt' = [failedAt EXCEPT ![t] = 0]
  /\ why' = [why EXCEPT ![t] = "none"]
  /\ startedLoaded' = [startedLoaded EXCEPT ![t] = loaded]
  /\ UNCHANGED << table, loaded, populators, obs >>

\* The host serialises loading: one thread at a time is in the entry point.
Invoke(t) ==
  /\ \A u \in Threads : ~Inside(u)
  /\ Enter(t)

\* The host does not serialise loading.
InvokeUnserialised(t) == Enter(t)

\* The entry point on thread t calls its kk[t]-th sub-procedure, which
\* looks at the table and either throws or goes on to install its name.
\* loaded records that the entry point has reached its successful return.
ExportCall(t) ==
  /\ pc[t] = "call"
  /\ \E unavailable \in BOOLEAN :
       LET k == kk[t]
           out == ExportOutcome(Registrations[k], table, unavailable)
           nxt == AfterCall(k, TRUE)
       IN  /\ called' = [called EXCEPT ![t] = Append(@, k)]
           /\ IF out = "ok"
              THEN /\ pc' = [pc EXCEPT ![t] = "commit"]
                   /\ UNCHANGED << table, kk, failedAt, why >>
              ELSE /\ pc' = [pc EXCEPT ![t] = nxt.pc]
                   /\ kk' = [kk EXCEPT ![t] = nxt.k]
                   /\ failedAt' = [failedAt EXCEPT ![t] = k]
                   /\ why' = [why EXCEPT ![t] = out]
                   /\ table' = OnThrow(table, added[t])
           /\ loaded' = (loaded \/ (out # "ok" /\ nxt.pc = "done"))
  /\ UNCHANGED << added, startedLoaded, loads, populators, obs >>

\* The sub-procedure installs its name and returns to the entry point.
ExportCommit(t) ==
  /\ pc[t] = "commit"
  /\ LET k == kk[t]
         nxt == AfterCall(k, FALSE)
     IN  /\ table' = Install(table, Registrations[k])
         /\ added' = [added EXCEPT ![t] = Append(@, Registrations[k])]
         /\ pc' = [pc EXCEPT ![t] = nxt.pc]
         /\ kk' = [kk EXCEPT ![t] = nxt.k]
         /\ loaded' = (loaded \/ nxt.pc = "done")
         /\ populators' = IF added[t] = << >> THEN populators + 1
                          ELSE populators
  /\ UNCHANGED << called, failedAt, why, startedLoaded, loads, obs >>

\* A reader looks a capability up and calls it if the lookup succeeds.
ReaderCall(name) ==
  /\ obs' = [name |-> name,
             ok |-> Dispatch(table, name),
             mid |-> \E t \in Threads : Inside(t),
             after |-> loaded,
             size |-> Len(table)]
  /\ UNCHANGED << table, pc, kk, called, added, failedAt, why,
                  startedLoaded, loads, loaded, populators >>

Next ==
  \/ \E t \in Threads : Invoke(t)
  \/ \E t \in Threads : ExportCall(t)
  \/ \E t \in Threads : ExportCommit(t)
  \/ \E name \in CallNames : ReaderCall(name)

Spec == Init /\ [][Next]_vars

NextUnserialised ==
  \/ \E t \in Threads : InvokeUnserialised(t)
  \/ \E t \in Threads : ExportCall(t)
  \/ \E t \in Threads : ExportCommit(t)
  \/ \E name \in CallNames : ReaderCall(name)

SpecUnserialised == Init /\ [][NextUnserialised]_vars

\* The entry point is straight-line code and every sub-procedure returns or
\* throws, so a thread inside the entry point keeps taking steps.
SpecLive ==
  /\ Init
  /\ [][Next]_vars
  /\ \A t \in Threads : WF_vars(ExportCall(t)) /\ WF_vars(ExportCommit(t))

\* ------------------------------------------------------------- properties
\* The capability table the specification expects after a successful load.
ExpectedNames ==
  << "luiso_s_2d_integration",
     "summation",
     "summation_reciprocal_space",
     "profile_fitting_reciprocal_space" >>

FirstCalls(n) == [i \in 1..n |-> i]

Quiescent == \A t \in Threads : ~Inside(t)

\* C1: atomicity under failure.  When an invocation of the entry point has
\* ended in failure, the table holds none of the entries that invocation
\* installed.
C1_AtomicOnFailure ==
  \A t \in Threads :
    pc[t] = "failed" => Range(added[t]) \cap Range(table) = {}

\* C2: idempotence.  The table never holds a duplicate identifier and never
\* more than four entries; an invocation made after a successful load
\* installs nothing, leaves the four entries in their order and ends, if it
\* has ended, in an explicit failure.
C2_Idempotent ==
  /\ NoDuplicates(table)
  /\ Len(table) <= 4
  /\ \A t \in Threads :
       startedLoaded[t] =>
         /\ table = ExpectedNames
         /\ added[t] = << >>
         /\ pc[t] # "done"
         /\ pc[t] = "failed" => why[t] \in {"duplicate", "unavailable"}

C2_Witness ==
  \E t \in Threads :
    /\ startedLoaded[t]
    /\ pc[t] = "failed"
    /\ why[t] = "duplicate"
    /\ table = ExpectedNames

\* C3: completeness.  Whenever an invocation of the entry point has returned
\* successfully, the table holds exactly the four expected identifiers.
C3_Complete ==
  \A t \in Threads :
    pc[t] = "done" => /\ Len(table) = 4
                      /\ Range(table) = Range(ExpectedNames)

C3_Witness ==
  \E t \in Threads : pc[t] = "done" /\ ~startedLoaded[t] /\ Len(added[t]) = 4

\* C4: order stability.  In every state the table is a prefix of the fixed
\* sequence, every invocation has called the sub-procedures in the order
\* 1, 2, 3, 4, and after a successful load the table is the whole sequence.
C4_OrderStable ==
  /\ IsPrefix(table, ExpectedNames)
  /\ \A t \in Threads : called[t] = FirstCalls(Len(called[t]))
  /\ loaded => table = ExpectedNames

C4_Witness ==
  /\ Len(table) = 2
  /\ \E t \in Threads : Inside(t) /\ Len(added[t]) = 2

\* C5: no premature visibility.  A reader's call dispatches only when some
\* invocation of the entry point has already returned successfully.
C5_NoPrematureDispatch == obs.ok => obs.after

\* C6: write-once table.  One invocation at most installs entries, and once
\* an invocation has returned successfully no step changes the table.
C6_WriteOnce ==
  [][(loaded => table' = table) /\ populators' <= 1]_vars

C6_Witness ==
  /\ loaded
  /\ obs.ok /\ obs.after
  /\ \E t \in Threads : startedLoaded[t] /\ pc[t] = "failed"

\* C7: concurrent load attempts.  With two threads in the entry point at
\* once, under every interleaving of their steps the table never holds a
\* duplicate, is always a prefix of the fixed sequence, and is the whole
\* sequence once every invocation has ended without an unavailable table.
C7_GuardedLoad ==
  /\ NoDuplicates(table)
  /\ IsPrefix(table, ExpectedNames)
  /\ (/\ loads > 0
      /\ \A t \in Threads : pc[t] # "idle" => Terminal(t)
      /\ \A t \in Threads : why[t] # "unavailable")
     => table = ExpectedNames

\* C8: no degraded mode.  When no invocation is in progress the capabilities
\* are all usable or none is, and an invocation that ended in failure in a
\* process without a successful load leaves none usable.
C8_AllOrNothing ==
  Quiescent =>
    /\ Range(table) \in {{}, Range(ExpectedNames)}
    /\ \A t \in Threads : (pc[t] = "failed" /\ ~loaded) => table = << >>

\* C9: fail-stop sequencing.  When the k-th sub-procedure of an invocation
\* has thrown, the invocation has ended in failure, it has called exactly
\* the sub-procedures 1..k, and the k-1 entries it installed are still in
\* the table.
C9_FailStop ==
  \A t \in Threads :
    failedAt[t] # 0 =>
      /\ pc[t] = "failed"
      /\ called[t] = FirstCalls(failedAt[t])
      /\ added[t] = SubSeq(ExpectedNames, 1, failedAt[t] - 1)
      /\ IsPrefix(added[t], table)

C9_Witness ==
  \E t \in Threads : failedAt[t] = 3 /\ Len(added[t]) = 2 /\ Len(table) = 2

\* C10: single-shot termination.  Every invocation calls each sub-procedure
\* at most once, a successful one calls each of the four exactly once, and
\* every invocation that has started reaches done or failed.
C10_SingleShot ==
  \A t \in Threads :
    /\ [](NoDuplicates(called[t]) /\ Len(called[t]) <= 4)
    /\ [](pc[t] = "done" => called[t] = FirstCalls(4))
    /\ (Inside(t) ~> Terminal(t))

C10_Witness ==
  \E t \in Threads : pc[t] = "done" /\ called[t] = FirstCalls(4)
====
